---- MODULE Spec2Model ----
(***************************************************************************)
(* Trust Cars 4U backend (src/main.py): signup, login, the in-memory       *)
(* session registry and the per-user appointment store.                    *)
(*                                                                         *)
(* The endpoints are synchronous FastAPI handlers, so the framework runs   *)
(* them on a thread pool: each worker below is one request in flight, and  *)
(* a handler is split into steps at its accesses to shared state (the      *)
(* database collections and the sessions dict).                            *)
(*                                                                         *)
(* Representation.  A Python str is a sequence of one-character strings;   *)
(* None is the sentinel sequence <<"None">>; bytes are sequences of        *)
(* 0..255.  str(ObjectId) of the n-th document of a collection is n.       *)
(* SHA-256 is an ideal hash: the digest of a byte string is represented by *)
(* that byte string tagged "sha256", so distinct inputs give distinct      *)
(* digests.  secrets.token_hex never repeats a token (collisions of 24     *)
(* random bytes are ignored, as the code ignores them).  created_at and    *)
(* updated_at are written once and never read and are left out of the      *)
(* records.                                                                *)
(*                                                                         *)
(* Spec is the whole API.  SpecHash runs hash_password alone over a wider  *)
(* set of salt arguments, and SpecSessions runs signup, login and          *)
(* require_auth with require_auth split at its two dict accesses.          *)
(***************************************************************************)
EXTENDS Integers, Sequences, FiniteSets, TLC

\* ------------------------------------------------------------------ bounds

\* at most this many user documents are inserted
MaxUsers == 2
\* size of the pool secrets.token_hex draws from (sessions ever issued)
MaxTokens == 3
\* at most this many appointment documents are inserted
MaxAppts == 2

\* concurrent request handlers (thread-pool workers)
Workers == {1, 2}

\* ------------------------------------------------------- strings and bytes

None == <<"None">>

\* Python truthiness of an Optional[str]: None and "" are falsy
Truthy(s) == s # None /\ s # <<>>

HexLower == <<"0","1","2","3","4","5","6","7","8","9","a","b","c","d","e","f">>
HexUpper == <<"0","1","2","3","4","5","6","7","8","9","A","B","C","D","E","F">>

IsSpace(c) == c \in {" ", "\t", "\n", "\r"}

IsHexDigit(c) == \E i \in 1..16 : HexLower[i] = c \/ HexUpper[i] = c

HexDigitValue(c) == (CHOOSE i \in 1..16 : HexLower[i] = c \/ HexUpper[i] = c) - 1

\* bytes.hex() written with "%x" for "%02x": a byte below 16 loses its zero
RECURSIVE Hex_nopad(_)
Hex_nopad(bs) ==
    IF bs = <<>> THEN <<>>
    ELSE (IF bs[1] < 16 THEN <<HexLower[bs[1] + 1]>>
          ELSE <<HexLower[(bs[1] \div 16) + 1], HexLower[(bs[1] % 16) + 1]>>)
         \o Hex_nopad(Tail(bs))

\* bytes.hex(): two lowercase digits per byte
RECURSIVE Hex(_)
Hex(bs) ==
    IF bs = <<>> THEN <<>>
    ELSE <<HexLower[(bs[1] \div 16) + 1], HexLower[(bs[1] % 16) + 1]>> \o Hex(Tail(bs))

\* bytes.fromhex(): whitespace is skipped between bytes, every byte is two
\* hex digits of either case; anything else raises ValueError
RECURSIVE FromHexAt(_, _, _)
FromHexAt(s, i, acc) ==
    IF i > Len(s) THEN [ok |-> TRUE, bytes |-> acc]
    ELSE IF IsSpace(s[i]) THEN FromHexAt(s, i + 1, acc)
    ELSE IF i + 1 > Len(s) \/ ~IsHexDigit(s[i]) \/ ~IsHexDigit(s[i + 1])
         THEN [ok |-> FALSE, bytes |-> <<>>]
    ELSE FromHexAt(s, i + 2, Append(acc, 16 * HexDigitValue(s[i]) + HexDigitValue(s[i + 1])))

\* a tolerant decoder: characters that are no hex digits are dropped, a last
\* unpaired digit too, and nothing raises
RECURSIVE FromHex_lenient(_)
FromHex_lenient(s) ==
    IF s = <<>> THEN [ok |-> TRUE, bytes |-> <<>>]
    ELSE IF ~IsHexDigit(s[1]) THEN FromHex_lenient(Tail(s))
    ELSE IF Len(s) < 2 \/ ~IsHexDigit(s[2]) THEN FromHex_lenient(Tail(s))
    ELSE [ok |-> TRUE,
          bytes |-> <<16 * HexDigitValue(s[1]) + HexDigitValue(s[2])>>
                       \o FromHex_lenient(Tail(Tail(s))).bytes]

FromHex(s) == FromHexAt(s, 1, <<>>)

\* hashlib.sha256(data).hexdigest(), as an ideal hash
Sha256Hex(data) == [sha256 |-> data]

\* hash_password that mixes the random bytes in whether or not a salt is given
hash_password_fresh(password, salt_hex, rnd) ==
    LET parsed == IF Truthy(salt_hex) THEN FromHex(salt_hex)
                  ELSE [ok |-> TRUE, bytes |-> <<>>]
    IN  IF ~parsed.ok
        THEN [error |-> "ValueError", digest |-> Sha256Hex(<<>>), salt |-> <<>>]
        ELSE [error |-> "", digest |-> Sha256Hex(parsed.bytes \o rnd \o password),
              salt |-> Hex(parsed.bytes \o rnd)]

\* hash_password(password, salt_hex): rnd is the value secrets.token_bytes(16)
\* returns when it is called.  password is given as its UTF-8 bytes.
hash_password(password, salt_hex, rnd) ==
    LET parsed == IF Truthy(salt_hex) THEN FromHex(salt_hex)
                  ELSE [ok |-> TRUE, bytes |-> rnd]
    IN  IF ~parsed.ok
        THEN [error |-> "ValueError", digest |-> Sha256Hex(<<>>), salt |-> <<>>]
        ELSE [error |-> "", digest |-> Sha256Hex(parsed.bytes \o password),
              salt |-> Hex(parsed.bytes)]

\* lexicographic order of two strings given as sequences of character codes
RECURSIVE LexLeq(_, _)
LexLeq(a, b) ==
    IF a = <<>> THEN TRUE
    ELSE IF b = <<>> THEN FALSE
    ELSE IF a[1] # b[1] THEN a[1] < b[1]
    ELSE LexLeq(Tail(a), Tail(b))

\* ------------------------------------------------------------ input pools

Names == {"Alice"}
Emails == {"a@x.com", "b@x.com"}
\* passwords, as their UTF-8 bytes
Passwords == {<<112>>, <<113>>}
\* values of secrets.token_bytes(16)
SaltPool == {<<10>>}
\* the tokens secrets.token_hex(24) returns over a run
TokenPool == {Hex(<<b>>) : b \in 1..MaxTokens}
\* what a caller may present as the token query parameter
PresentedTokens == {None, <<>>, <<"z", "z">>} \cup TokenPool
\* datetime_iso strings, as character codes ("9", "10")
Dates == {<<57>>, <<49, 48>>}

\* request bodies of POST /api/appointments
RawAppointments ==
    [name : {"Alice"}, phone : {"555"}, car_model : {"Civic"},
     datetime_iso : Dates, purpose : {"Service"}]

\* ------------------------------------------------------------------- state

VARIABLES
    db,            \* database.db is configured (TRUE) or None (FALSE); it is
                   \* set at import and never changes
    users,         \* collection "userauth", in insertion order
    appointments,  \* collection "appointment", in insertion order
    sessions,      \* the sessions dict: token -> user id
    pc,            \* per worker: where its handler stands
    req,           \* per worker: the request it is handling
    local,         \* per worker: the handler's local variables
    resp,          \* per worker: the response its handler produced
    issued,        \* history: the <<token, user id>> pairs returned in 200 responses
    raced,         \* history: emails on which two signups overlapped
    booked         \* history: the bookings answered 200: token presented, payload
                   \* submitted, id returned

vars == <<db, users, appointments, sessions, pc, req, local, resp, issued, raced, booked>>

NoUser == [_id |-> 0, name |-> "", email |-> "", password_hash |-> Sha256Hex(<<>>),
           salt |-> <<>>]
NoLocal == [user |-> NoUser, user_id |-> 0, inserted_id |-> 0]
NoRequest == [op |-> "none"]
NoResponse == [op |-> "none", status |-> 0, detail |-> "", body |-> <<>>]

\* raise HTTPException(status_code, detail)
HTTPException(op, status_code, detail) ==
    [op |-> op, status |-> status_code, detail |-> detail, body |-> <<>>]

\* a returned value, sent with status 200
Returned(op, body) == [op |-> op, status |-> 200, detail |-> "", body |-> body]

Init ==
    /\ db \in BOOLEAN
    /\ users = <<>>
    /\ appointments = <<>>
    /\ sessions = <<>>
    /\ pc = [p \in Workers |-> "idle"]
    /\ req = [p \in Workers |-> NoRequest]
    /\ local = [p \in Workers |-> NoLocal]
    /\ resp = [p \in Workers |-> NoResponse]
    /\ issued = {}
    /\ raced = {}
    /\ booked = {}

\* the dict rebuilt from the new entry alone: earlier entries are lost
DictSet_rebuild(d, k, v) == [x \in {k} |-> v]

\* d[k] = v on a Python dict
DictSet(d, k, v) == [x \in DOMAIN d \cup {k} |-> IF x = k THEN v ELSE d[x]]

\* no handler has answered and not yet handed its response to the framework
NoneDone == \A q \in Workers : pc[q] # "done"

InFlight(states) == Cardinality({q \in Workers : pc[q] \in states})

\* admission bounds: a request that will insert a document or issue a token is
\* taken only while the pools have room for it
RoomForUser == Len(users) + InFlight({"signup_insert"}) < MaxUsers
RoomForToken ==
    Cardinality(DOMAIN sessions)
        + InFlight({"signup_insert", "signup_issue", "login_check"}) < MaxTokens
RoomForAppointment == Len(appointments) + InFlight({"appointment_insert"}) < MaxAppts

\* ------------------------------------------------------------- user store

\* db["userauth"].find({"email": email}): the matching documents
UsersByEmail(email) == {users[i] : i \in {j \in 1..Len(users) : users[j].email = email}}

\* get_user_by_email querying a collection that holds no users
get_user_by_email_none(email) == {NoUser}

\* get_user_by_email: what find_one may return, None as NoUser.  Without a sort
\* the document returned among several matches is the store's choice.
get_user_by_email(email) ==
    IF UsersByEmail(email) = {} THEN {NoUser} ELSE UsersByEmail(email)

\* a token generator that repeats itself
token_hex_repeat == {Hex(<<1>>)}

\* values secrets.token_hex(24) may return: a token it has not returned before.
\* Tokens are opaque, so the k-th token issued is named Hex(<<k>>).
token_hex == {Hex(<<Cardinality(DOMAIN sessions) + 1>>)}

\* require_auth with the membership test lost: sessions.get(token), an unknown
\* token resolving to the first user
require_auth_get(token) ==
    IF ~Truthy(token)
    THEN [status |-> 401, detail |-> "Unauthorized", user_id |-> 0]
    ELSE [status |-> 200, detail |-> "",
          user_id |-> IF token \in DOMAIN sessions THEN sessions[token] ELSE 1]

\* require_auth answering 403 Forbidden
require_auth_403(token) ==
    IF ~Truthy(token) \/ token \notin DOMAIN sessions
    THEN [status |-> 403, detail |-> "Forbidden", user_id |-> 0]
    ELSE [status |-> 200, detail |-> "", user_id |-> sessions[token]]

\* require_auth(token)
require_auth(token) ==
    IF ~Truthy(token) \/ token \notin DOMAIN sessions
    THEN [status |-> 401, detail |-> "Unauthorized", user_id |-> 0]
    ELSE [status |-> 200, detail |-> "", user_id |-> sessions[token]]

\* ----------------------------------------------------------------- signup

\* the document signup builds (lines 77-85) for payload, given the random salt
UserDoc(payload, rnd) ==
    LET h == hash_password(payload.password, None, rnd)
    IN  [_id |-> Len(users) + 1, name |-> payload.name, email |-> payload.email,
         password_hash |-> h.digest, salt |-> h.salt]

\* another signup of the same email has passed its lookup and not yet inserted
Overlaps(p, email) ==
    \E q \in Workers \ {p} : pc[q] = "signup_insert" /\ req[q].email = email

\* signup, lines 69-75: the database check and the lookup of the email
signup(p) ==
    /\ NoneDone
    /\ pc[p] = "idle"
    /\ \E payload \in [op : {"signup"}, name : Names, email : Emails, password : Passwords] :
        /\ req' = [req EXCEPT ![p] = payload]
        /\ IF ~db
           THEN /\ resp' = [resp EXCEPT ![p] =
                       HTTPException("signup", 500, "Database not configured")]
                /\ pc' = [pc EXCEPT ![p] = "done"]
                /\ UNCHANGED raced
           ELSE \E existing \in get_user_by_email(payload.email) :
                  IF existing # NoUser
                  THEN /\ resp' = [resp EXCEPT ![p] =
                              HTTPException("signup", 400, "Email already registered")]
                       /\ pc' = [pc EXCEPT ![p] = "done"]
                       /\ UNCHANGED raced
                  ELSE /\ RoomForUser /\ RoomForToken
                       /\ pc' = [pc EXCEPT ![p] = "signup_insert"]
                       /\ raced' = IF Overlaps(p, payload.email)
                                   THEN raced \cup {payload.email} ELSE raced
                       /\ UNCHANGED resp
    /\ UNCHANGED <<db, users, appointments, sessions, local, issued, booked>>

\* the document written to another collection: "userauth" stays as it was
insert_user_elsewhere(doc) == users

\* insert_one replaced by an upsert keyed on the email: a stored document with
\* the same email is overwritten
insert_user_upsert(doc) ==
    IF \E i \in 1..Len(users) : users[i].email = doc.email
    THEN [i \in 1..Len(users) |->
            IF users[i].email = doc.email THEN [doc EXCEPT !._id = i] ELSE users[i]]
    ELSE Append(users, doc)

\* insert_one retried after it had succeeded: the document is stored twice
insert_user_twice(doc) == Append(Append(users, doc), [doc EXCEPT !._id = @ + 1])

\* db["userauth"].insert_one(user_doc)
insert_user(doc) == Append(users, doc)

\* signup, lines 77-86: hash the password under a fresh salt, insert the user
signup_insert(p) ==
    /\ NoneDone
    /\ pc[p] = "signup_insert"
    /\ \E rnd \in SaltPool :
        /\ users' = insert_user(UserDoc(req[p], rnd))
        /\ local' = [local EXCEPT ![p].inserted_id = Len(users) + 1]
    /\ pc' = [pc EXCEPT ![p] = "signup_issue"]
    /\ UNCHANGED <<db, appointments, sessions, req, resp, issued, raced, booked>>

\* signup, lines 88-90: issue the token and answer
signup_issue(p) ==
    /\ NoneDone
    /\ pc[p] = "signup_issue"
    /\ \E token \in token_hex :
        /\ sessions' = DictSet(sessions, token, local[p].inserted_id)
        /\ issued' = issued \cup {<<token, local[p].inserted_id>>}
        /\ resp' = [resp EXCEPT ![p] = Returned("signup",
                       [token |-> token,
                        user |-> [id |-> local[p].inserted_id, name |-> req[p].name,
                                  email |-> req[p].email]])]
    /\ pc' = [pc EXCEPT ![p] = "done"]
    /\ UNCHANGED <<db, users, appointments, req, local, raced, booked>>

\* ------------------------------------------------------------------ login

\* the lookup failure answered on its own: 404 "User not found"
InvalidCredentials_leak(case) ==
    IF case = "no_user" THEN HTTPException("login", 404, "User not found")
    ELSE HTTPException("login", 401, "Invalid credentials")

\* raise HTTPException(status_code=401, detail="Invalid credentials"), raised
\* when the lookup finds no user ("no_user", line 100) and when the recomputed
\* hash differs ("wrong_password", line 104)
InvalidCredentials(case) == HTTPException("login", 401, "Invalid credentials")

\* login, lines 94-100: the database check and the lookup of the email
login(p) ==
    /\ NoneDone
    /\ pc[p] = "idle"
    /\ \E payload \in [op : {"login"}, email : Emails, password : Passwords] :
        /\ req' = [req EXCEPT ![p] = payload]
        /\ IF ~db
           THEN /\ resp' = [resp EXCEPT ![p] =
                       HTTPException("login", 500, "Database not configured")]
                /\ pc' = [pc EXCEPT ![p] = "done"]
                /\ UNCHANGED local
           ELSE \E user \in get_user_by_email(payload.email) :
                  IF user = NoUser
                  THEN /\ resp' = [resp EXCEPT ![p] = InvalidCredentials("no_user")]
                       /\ pc' = [pc EXCEPT ![p] = "done"]
                       /\ UNCHANGED local
                  ELSE /\ RoomForToken
                       /\ local' = [local EXCEPT ![p].user = user]
                       /\ pc' = [pc EXCEPT ![p] = "login_check"]
                       /\ UNCHANGED resp
    /\ UNCHANGED <<db, users, appointments, sessions, issued, raced, booked>>

\* login with the token issued before the password is compared
login_check_token_first(p) ==
    /\ NoneDone
    /\ pc[p] = "login_check"
    /\ \E rnd \in SaltPool, token \in token_hex :
        LET user == local[p].user
            h == hash_password(req[p].password, user.salt, rnd)
        IN  /\ sessions' = DictSet(sessions, token, user._id)
            /\ IF h.error # ""
               THEN /\ resp' = [resp EXCEPT ![p] =
                           HTTPException("login", 500, "Internal Server Error")]
                    /\ UNCHANGED issued
               ELSE IF h.digest # user.password_hash
               THEN /\ resp' = [resp EXCEPT ![p] = InvalidCredentials("wrong_password")]
                    /\ UNCHANGED issued
               ELSE /\ issued' = issued \cup {<<token, user._id>>}
                    /\ resp' = [resp EXCEPT ![p] = Returned("login",
                                   [token |-> token,
                                    user |-> [id |-> user._id, name |-> user.name,
                                              email |-> user.email]])]
    /\ pc' = [pc EXCEPT ![p] = "done"]
    /\ UNCHANGED <<db, users, appointments, req, local, raced, booked>>

\* login, lines 102-108: recompute the hash under the stored salt, compare,
\* issue the token and answer
login_check(p) ==
    /\ NoneDone
    /\ pc[p] = "login_check"
    /\ \E rnd \in SaltPool :
        LET user == local[p].user
            h == hash_password(req[p].password, user.salt, rnd)
        IN  IF h.error # ""
            THEN /\ resp' = [resp EXCEPT ![p] =
                        HTTPException("login", 500, "Internal Server Error")]
                 /\ UNCHANGED <<sessions, issued>>
            ELSE IF h.digest # user.password_hash
            THEN /\ resp' = [resp EXCEPT ![p] = InvalidCredentials("wrong_password")]
                 /\ UNCHANGED <<sessions, issued>>
            ELSE \E token \in token_hex :
                 /\ sessions' = DictSet(sessions, token, user._id)
                 /\ issued' = issued \cup {<<token, user._id>>}
                 /\ resp' = [resp EXCEPT ![p] = Returned("login",
                                [token |-> token,
                                 user |-> [id |-> user._id, name |-> user.name,
                                           email |-> user.email]])]
    /\ pc' = [pc EXCEPT ![p] = "done"]
    /\ UNCHANGED <<db, users, appointments, req, local, raced, booked>>

\* ----------------------------------------------------------- appointments

\* AppointmentRequest: the request model keeps its five declared fields
AppointmentRequest(raw) ==
    [name |-> raw.name, phone |-> raw.phone, car_model |-> raw.car_model,
     datetime_iso |-> raw.datetime_iso, purpose |-> raw.purpose]

\* the document built with a copy-paste slip: car_model filled from payload.name
AppointmentDoc_slip(user_id, raw) ==
    LET payload == AppointmentRequest(raw)
    IN  [_id |-> Len(appointments) + 1, user_id |-> user_id, name |-> payload.name,
         phone |-> payload.phone, car_model |-> payload.name,
         datetime_iso |-> payload.datetime_iso, purpose |-> payload.purpose]

\* the document create_appointment builds (lines 124-133)
AppointmentDoc(user_id, raw) ==
    LET payload == AppointmentRequest(raw)
    IN  [_id |-> Len(appointments) + 1, user_id |-> user_id, name |-> payload.name,
         phone |-> payload.phone, car_model |-> payload.car_model,
         datetime_iso |-> payload.datetime_iso, purpose |-> payload.purpose]

\* create_appointment with the token resolved before the database check (as a
\* Depends(require_auth) parameter would be)
create_appointment_auth_first(p) ==
    /\ NoneDone
    /\ pc[p] = "idle"
    /\ \E raw \in RawAppointments, token \in PresentedTokens :
        /\ req' = [req EXCEPT ![p] = [op |-> "create_appointment", payload |-> raw,
                                      token |-> token]]
        /\ LET auth == require_auth(token)
           IN  IF auth.status # 200
               THEN /\ resp' = [resp EXCEPT ![p] =
                           HTTPException("create_appointment", auth.status, auth.detail)]
                    /\ pc' = [pc EXCEPT ![p] = "done"]
                    /\ UNCHANGED local
               ELSE IF ~db
               THEN /\ resp' = [resp EXCEPT ![p] =
                           HTTPException("create_appointment", 500, "Database not configured")]
                    /\ pc' = [pc EXCEPT ![p] = "done"]
                    /\ UNCHANGED local
               ELSE /\ RoomForAppointment
                    /\ local' = [local EXCEPT ![p].user_id = auth.user_id]
                    /\ pc' = [pc EXCEPT ![p] = "appointment_insert"]
                    /\ UNCHANGED resp
    /\ UNCHANGED <<db, users, appointments, sessions, issued, raced, booked>>

\* create_appointment, lines 119-122: the database check and require_auth
create_appointment(p) ==
    /\ NoneDone
    /\ pc[p] = "idle"
    /\ \E raw \in RawAppointments, token \in PresentedTokens :
        /\ req' = [req EXCEPT ![p] = [op |-> "create_appointment", payload |-> raw,
                                      token |-> token]]
        /\ IF ~db
           THEN /\ resp' = [resp EXCEPT ![p] =
                       HTTPException("create_appointment", 500, "Database not configured")]
                /\ pc' = [pc EXCEPT ![p] = "done"]
                /\ UNCHANGED local
           ELSE LET auth == require_auth(token)
                IN  IF auth.status # 200
                    THEN /\ resp' = [resp EXCEPT ![p] =
                                HTTPException("create_appointment", auth.status, auth.detail)]
                         /\ pc' = [pc EXCEPT ![p] = "done"]
                         /\ UNCHANGED local
                    ELSE /\ RoomForAppointment
                         /\ local' = [local EXCEPT ![p].user_id = auth.user_id]
                         /\ pc' = [pc EXCEPT ![p] = "appointment_insert"]
                         /\ UNCHANGED resp
    /\ UNCHANGED <<db, users, appointments, sessions, issued, raced, booked>>

\* insert_one replaced by an upsert on the time slot: a document with the same
\* datetime_iso is overwritten, owner included
insert_appointment_upsert(doc) ==
    IF \E i \in 1..Len(appointments) : appointments[i].datetime_iso = doc.datetime_iso
    THEN [i \in 1..Len(appointments) |->
            IF appointments[i].datetime_iso = doc.datetime_iso
            THEN [doc EXCEPT !._id = i] ELSE appointments[i]]
    ELSE Append(appointments, doc)

\* db["appointment"].insert_one(doc)
insert_appointment(doc) == Append(appointments, doc)

\* create_appointment, lines 124-135: insert the document and answer
appointment_insert(p) ==
    /\ NoneDone
    /\ pc[p] = "appointment_insert"
    /\ appointments' = insert_appointment(AppointmentDoc(local[p].user_id, req[p].payload))
    /\ resp' = [resp EXCEPT ![p] = Returned("create_appointment",
                   [id |-> Len(appointments) + 1,
                    message |-> "Appointment booked successfully"])]
    /\ booked' = booked \cup {[token |-> req[p].token, payload |-> req[p].payload,
                              id |-> Len(appointments) + 1]}
    /\ pc' = [pc EXCEPT ![p] = "done"]
    /\ UNCHANGED <<db, users, sessions, req, local, issued, raced>>

\* find() with the filter lost: every document of the collection
AppointmentsOf_all(user_id) == {appointments[i] : i \in 1..Len(appointments)}

\* db["appointment"].find({"user_id": user_id}): the matching documents
AppointmentsOf(user_id) ==
    {appointments[i] : i \in {j \in 1..Len(appointments) : appointments[j].user_id = user_id}}

\* the orders in which a set of documents can be listed
Orderings(S) ==
    {s \in [1..Cardinality(S) -> S] : \A i, j \in 1..Cardinality(S) : i # j => s[i] # s[j]}

\* .sort("datetime_iso", -1): descending
SortedByDatetime_desc(s) ==
    \A i \in 1..(Len(s) - 1) : LexLeq(s[i + 1].datetime_iso, s[i].datetime_iso)

\* .sort("datetime_iso", 1): ascending by the string; the order of documents
\* with equal keys is the store's choice
SortedByDatetime(s) ==
    \A i \in 1..(Len(s) - 1) : LexLeq(s[i].datetime_iso, s[i + 1].datetime_iso)

find_sorted(user_id) == {s \in Orderings(AppointmentsOf(user_id)) : SortedByDatetime(s)}

\* a["id"] = str(a.pop("_id"))
WithId(a) ==
    [id |-> a._id, user_id |-> a.user_id, name |-> a.name, phone |-> a.phone,
     car_model |-> a.car_model, datetime_iso |-> a.datetime_iso, purpose |-> a.purpose]

\* list_my_appointments, lines 140-143: the database check and require_auth
list_my_appointments(p) ==
    /\ NoneDone
    /\ pc[p] = "idle"
    /\ \E token \in PresentedTokens :
        /\ req' = [req EXCEPT ![p] = [op |-> "list_my_appointments", token |-> token]]
        /\ IF ~db
           THEN /\ resp' = [resp EXCEPT ![p] =
                       HTTPException("list_my_appointments", 500, "Database not configured")]
                /\ pc' = [pc EXCEPT ![p] = "done"]
                /\ UNCHANGED local
           ELSE LET auth == require_auth(token)
                IN  IF auth.status # 200
                    THEN /\ resp' = [resp EXCEPT ![p] =
                                HTTPException("list_my_appointments", auth.status, auth.detail)]
                         /\ pc' = [pc EXCEPT ![p] = "done"]
                         /\ UNCHANGED local
                    ELSE /\ local' = [local EXCEPT ![p].user_id = auth.user_id]
                         /\ pc' = [pc EXCEPT ![p] = "appointment_find"]
                         /\ UNCHANGED resp
    /\ UNCHANGED <<db, users, appointments, sessions, issued, raced, booked>>

\* list_my_appointments, lines 144-148: query, sort, rename _id and answer
appointment_find(p) ==
    /\ NoneDone
    /\ pc[p] = "appointment_find"
    /\ \E appts \in find_sorted(local[p].user_id) :
        resp' = [resp EXCEPT ![p] = Returned("list_my_appointments",
                    [i \in 1..Len(appts) |-> WithId(appts[i])])]
    /\ pc' = [pc EXCEPT ![p] = "done"]
    /\ UNCHANGED <<db, users, appointments, sessions, req, local, issued, raced, booked>>

\* The framework sends the response and the worker is free again.  This step
\* touches the worker's own variables only, so it commutes with every step of
\* the other workers; it is taken as soon as the handler has answered (the
\* other actions wait for it), which leaves out no state of the stores and of
\* the handlers under way.
respond(p) ==
    /\ pc[p] = "done"
    /\ pc' = [pc EXCEPT ![p] = "idle"]
    /\ req' = [req EXCEPT ![p] = NoRequest]
    /\ local' = [local EXCEPT ![p] = NoLocal]
    /\ resp' = [resp EXCEPT ![p] = NoResponse]
    /\ UNCHANGED <<db, users, appointments, sessions, issued, raced, booked>>

Next ==
    \E p \in Workers :
        \/ signup(p)
        \/ signup_insert(p)
        \/ signup_issue(p)
        \/ login(p)
        \/ login_check(p)
        \/ create_appointment(p)
        \/ appointment_insert(p)
        \/ list_my_appointments(p)
        \/ appointment_find(p)
        \/ respond(p)

Spec == Init /\ [][Next]_vars

\* ------------------------------------------------- hash_password on its own

\* longest salt_hex argument tried
MaxSaltLen == 2

\* characters of the salt_hex arguments: hex digits of both cases, a space and
\* a letter that is no hex digit
SaltAlphabet == {"0", "a", "A", " ", "g"}

\* the salt_hex arguments: None and every string of SaltAlphabet up to MaxSaltLen
SaltArguments ==
    {None} \cup UNION {[1..n -> SaltAlphabet] : n \in 0..MaxSaltLen}

\* values of secrets.token_bytes(16) for the direct calls
RandomSalts == {<<10>>, <<171>>}

\* a caller invokes hash_password(password, salt_hex) and holds what it returns
\* or raises; each call draws its own random bytes
hash_call(p) ==
    /\ pc[p] = "idle"
    /\ \E password \in Passwords, salt_hex \in SaltArguments, rnd \in RandomSalts :
        LET h == hash_password(password, salt_hex, rnd)
        IN  /\ req' = [req EXCEPT ![p] = [op |-> "hash_password", password |-> password,
                                          salt_hex |-> salt_hex]]
            /\ resp' = [resp EXCEPT ![p] = [op |-> "hash_password", error |-> h.error,
                                            digest |-> h.digest, salt |-> h.salt]]
    /\ pc' = [pc EXCEPT ![p] = "done"]
    /\ UNCHANGED <<db, users, appointments, sessions, local, issued, raced, booked>>

\* the caller drops the result and may call again
hash_return(p) ==
    /\ pc[p] = "done"
    /\ pc' = [pc EXCEPT ![p] = "idle"]
    /\ req' = [req EXCEPT ![p] = NoRequest]
    /\ resp' = [resp EXCEPT ![p] = NoResponse]
    /\ UNCHANGED <<db, users, appointments, sessions, local, issued, raced, booked>>

NextHash == \E p \in Workers : hash_call(p) \/ hash_return(p)

\* two callers of hash_password side by side, nothing else running
SpecHash == Init /\ [][NextHash]_vars

\* ---------------------------------------- the sessions dict under concurrency

\* require_auth is two accesses to the sessions dict, the membership test of
\* line 112 and the read of line 114, and each access is atomic on its own.
\* Here a caller runs them as two steps, so that the writes of signup and login
\* fall between them.

\* require_auth, lines 112-113: the truthiness and membership tests
require_auth_test(p) ==
    /\ NoneDone
    /\ pc[p] = "idle"
    /\ \E token \in PresentedTokens :
        /\ req' = [req EXCEPT ![p] = [op |-> "require_auth", token |-> token]]
        /\ IF ~Truthy(token) \/ token \notin DOMAIN sessions
           THEN /\ resp' = [resp EXCEPT ![p] =
                       HTTPException("require_auth", 401, "Unauthorized")]
                /\ pc' = [pc EXCEPT ![p] = "done"]
           ELSE /\ pc' = [pc EXCEPT ![p] = "require_auth_return"]
                /\ UNCHANGED resp
    /\ UNCHANGED <<db, users, appointments, sessions, local, issued, raced, booked>>

\* require_auth, line 114: return sessions[token]; a key that is gone raises
\* KeyError
require_auth_return(p) ==
    /\ NoneDone
    /\ pc[p] = "require_auth_return"
    /\ resp' = [resp EXCEPT ![p] =
                   IF req[p].token \in DOMAIN sessions
                   THEN Returned("require_auth", sessions[req[p].token])
                   ELSE HTTPException("require_auth", 500, "KeyError")]
    /\ pc' = [pc EXCEPT ![p] = "done"]
    /\ UNCHANGED <<db, users, appointments, sessions, req, local, issued, raced, booked>>

NextSessions ==
    \E p \in Workers :
        \/ signup(p)
        \/ signup_insert(p)
        \/ signup_issue(p)
        \/ login(p)
        \/ login_check(p)
        \/ require_auth_test(p)
        \/ require_auth_return(p)
        \/ respond(p)

\* signup, login and require_auth calls interleaved at every access to the
\* sessions dict
SpecSessions == Init /\ [][NextSessions]_vars

\* ------------------------------------------------------------------ claims

\* the step by which worker p starts handling a request of kind op
Starts(p, op) == pc[p] = "idle" /\ pc'[p] # "idle" /\ req'[p].op = op

\* worker p has answered a request of kind op
Answered(p, op) == pc[p] = "done" /\ req[p].op = op

IssuedTokens == {e[1] : e \in issued}

\* C1: require_auth fails with 401 Unauthorized for every token that is None,
\* empty or was not returned by an earlier signup or login, and returns a user
\* id only for tokens that were issued.
C1_RequireAuthOnlyIssued ==
    \A token \in PresentedTokens :
        /\ (~Truthy(token) \/ token \notin IssuedTokens)
              => /\ require_auth(token).status = 401
                 /\ require_auth(token).detail = "Unauthorized"
        /\ require_auth(token).status = 200 => token \in IssuedTokens

\* C1 witness: with sessions issued, a protected call presenting a non-empty
\* token that was never issued has been answered 401.
C1_Witness ==
    \E p \in Workers :
        /\ Answered(p, "list_my_appointments")
        /\ issued # {}
        /\ Truthy(req[p].token) /\ req[p].token \notin IssuedTokens
        /\ resp[p].status = 401

\* C2: the appointment inserted by create_appointment is owned by the user the
\* sessions dict binds to the presented token, and no step changes the owner
\* of a stored appointment.
C2_OwnerFromSessionImmutable ==
    [][ /\ \A p \in Workers :
              (pc[p] = "appointment_insert" /\ pc'[p] = "done")
                 => /\ Len(appointments') = Len(appointments) + 1
                    /\ appointments'[Len(appointments')].user_id = sessions[req[p].token]
        /\ \A i \in 1..Len(appointments) :
              /\ i <= Len(appointments')
              /\ appointments'[i].user_id = appointments[i].user_id
      ]_vars

\* C2 witness: two users each own a stored appointment, the second booked for
\* the same time slot as the first.
C2_Witness ==
    /\ Len(appointments) = 2
    /\ appointments[1].user_id # appointments[2].user_id
    /\ appointments[1].datetime_iso = appointments[2].datetime_iso

\* C3: list_my_appointments with a valid token returns exactly the stored
\* appointments owned by the user bound to the token: all of them, each once,
\* and none of another user.
C3_ListExactlyOwn ==
    [][ \A p \in Workers :
          (pc[p] = "appointment_find" /\ pc'[p] = "done")
             => LET owner == sessions[req[p].token]
                    body == resp'[p].body
                    own == {WithId(appointments[i]) :
                              i \in {j \in 1..Len(appointments) :
                                        appointments[j].user_id = owner}}
                IN  /\ resp'[p].status = 200
                    /\ {body[i] : i \in 1..Len(body)} = own
                    /\ Len(body) = Cardinality(own)
      ]_vars

\* C3 witness: a user without bookings has been answered the empty list while
\* another user has a booking.
C3_Witness ==
    \E p \in Workers :
        /\ Answered(p, "list_my_appointments")
        /\ resp[p].status = 200
        /\ resp[p].body = <<>>
        /\ appointments # <<>>

\* C4: the sequence list_my_appointments returns is ascending in the
\* lexicographic order of datetime_iso.
C4_ListSorted ==
    \A p \in Workers :
        (Answered(p, "list_my_appointments") /\ resp[p].status = 200)
           => \A i \in 1..(Len(resp[p].body) - 1) :
                 LexLeq(resp[p].body[i].datetime_iso, resp[p].body[i + 1].datetime_iso)

\* C4 witness: a list of two appointments is returned in the order of their
\* datetime_iso, against the order of their creation.
C4_Witness ==
    \E p \in Workers :
        /\ Answered(p, "list_my_appointments")
        /\ resp[p].status = 200
        /\ Len(resp[p].body) = 2
        /\ resp[p].body[1].id > resp[p].body[2].id
        /\ resp[p].body[1].datetime_iso # resp[p].body[2].datetime_iso

\* what create_appointment and list_my_appointments do at a token that does not
\* resolve: answer 401 Unauthorized at once, the appointments untouched
RejectsUnresolved(p, op) ==
    (Starts(p, op) /\ (~Truthy(req'[p].token) \/ req'[p].token \notin DOMAIN sessions))
       => /\ pc'[p] = "done"
          /\ resp'[p] = HTTPException(op, 401, "Unauthorized")
          /\ appointments' = appointments

\* C5 as stated: every request to a protected endpoint whose token does not
\* resolve is answered 401 and processed no further.
C5_Original ==
    [][ \A p \in Workers :
           /\ RejectsUnresolved(p, "create_appointment")
           /\ RejectsUnresolved(p, "list_my_appointments") ]_vars

\* C5 amended: with the database configured, every request to a protected
\* endpoint whose token does not resolve is answered 401 and processed no
\* further (without a database the answer is 500, whatever the token).
C5_RejectsUnresolvedWhenDb ==
    [][ db => \A p \in Workers :
                 /\ RejectsUnresolved(p, "create_appointment")
                 /\ RejectsUnresolved(p, "list_my_appointments") ]_vars

\* C5 witness: with the database configured and an appointment stored, a
\* create_appointment presenting no token has been answered 401.
C5_Witness ==
    \E p \in Workers :
        /\ Answered(p, "create_appointment")
        /\ db
        /\ req[p].token = None
        /\ resp[p].status = 401
        /\ appointments # <<>>

\* C6 as stated: in every reachable state, concurrent signups included, no two
\* user records have the same email.
C6_Original ==
    \A i, j \in 1..Len(users) : i # j => users[i].email # users[j].email

\* C6 amended: two user records have the same email only if two signup
\* requests for that email overlapped, one looking the email up between the
\* lookup and the insert of the other.
C6_UniqueEmailUnlessRaced ==
    \A i, j \in 1..Len(users) :
        (i # j /\ users[i].email = users[j].email) => users[i].email \in raced

\* C6 witness: with two users stored and no signups overlapped, a further
\* signup has been refused.
C6_Witness ==
    \E p \in Workers :
        /\ Answered(p, "signup")
        /\ resp[p].status = 400
        /\ Len(users) = 2
        /\ raced = {}

\* C7: with the database configured, a signup whose email is stored is answered
\* 400 "Email already registered" and inserts nothing; a signup whose email is
\* not stored goes on to insert its user and is answered 200.
C7_SignupConflict ==
    [][ \A p \in Workers :
          /\ (Starts(p, "signup") /\ db)
                => IF \E i \in 1..Len(users) : users[i].email = req'[p].email
                   THEN /\ pc'[p] = "done"
                        /\ resp'[p] = HTTPException("signup", 400, "Email already registered")
                        /\ users' = users
                        /\ sessions' = sessions
                   ELSE pc'[p] = "signup_insert"
          /\ (pc[p] = "signup_insert" /\ pc'[p] # "signup_insert")
                => /\ pc'[p] = "signup_issue"
                   /\ Len(users') = Len(users) + 1
                   /\ users'[Len(users')].email = req[p].email
          /\ (pc[p] = "signup_issue" /\ pc'[p] # "signup_issue")
                => /\ pc'[p] = "done"
                   /\ resp'[p].status = 200
                   /\ resp'[p].body.user.email = req[p].email
      ]_vars

\* C7 witness: one user is stored and a second signup with its email has been
\* answered 400.
C7_Witness ==
    \E p \in Workers :
        /\ Answered(p, "signup")
        /\ resp[p].status = 400
        /\ Len(users) = 1
        /\ users[1].email = req[p].email

\* u is a record that a signup with this email and password inserts
StoredFor(u, email, password) ==
    /\ u.email = email
    /\ \E rnd \in SaltPool : u.password_hash = Sha256Hex(rnd \o password)

\* the signup that inserted the stored user i has been answered
SignedUp(i) == \E e \in issued : e[2] = users[i]._id

\* a login that looks up user i goes on to the password check with that
\* user's record
LoginFinds(p, i) == pc'[p] = "login_check" /\ local'[p].user = users[i]

\* a login checked against the record of its email and password is answered
\* with a token that resolves to that record's user
LoginCheckSucceeds(p) ==
    ( /\ pc[p] = "login_check" /\ pc'[p] = "done"
      /\ StoredFor(local[p].user, req[p].email, req[p].password) )
       => /\ resp'[p].status = 200
          /\ resp'[p].body.token \in DOMAIN sessions'
          /\ sessions'[resp'[p].body.token] = local[p].user._id
          /\ resp'[p].body.user.id = local[p].user._id

\* the token a signup returns resolves to the user that signup inserted
SignupTokenResolves(p) ==
    (pc[p] = "signup_issue" /\ pc'[p] = "done")
       => /\ resp'[p].status = 200
          /\ resp'[p].body.token \in DOMAIN sessions'
          /\ sessions'[resp'[p].body.token] = resp'[p].body.user.id
          /\ StoredFor(users[resp'[p].body.user.id], req[p].email, req[p].password)

\* C8 as stated: once a signup with email e and password p has been answered,
\* every login with e and p that starts later (database configured) is
\* answered with a token that resolves to the user that signup inserted; the
\* signup's own token resolves to that user too.
C8_Original ==
    [][ \A p \in Workers :
          /\ (Starts(p, "login") /\ db)
                => \A i \in 1..Len(users) :
                      (StoredFor(users[i], req'[p].email, req'[p].password) /\ SignedUp(i))
                         => LoginFinds(p, i)
          /\ LoginCheckSucceeds(p)
          /\ SignupTokenResolves(p)
      ]_vars

\* C8 amended: the same, for a user record that is the only one stored with
\* its email (no concurrent signup of that email has inserted another).
C8_LoginAfterSignupUniqueEmail ==
    [][ \A p \in Workers :
          /\ (Starts(p, "login") /\ db)
                => \A i \in 1..Len(users) :
                      ( /\ StoredFor(users[i], req'[p].email, req'[p].password)
                        /\ SignedUp(i)
                        /\ \A j \in 1..Len(users) : users[j].email = users[i].email => j = i )
                         => LoginFinds(p, i)
          /\ LoginCheckSucceeds(p)
          /\ SignupTokenResolves(p)
      ]_vars

\* C8 witness: with two users stored, a login of the second has been answered
\* with a token that resolves to it.
C8_Witness ==
    \E p \in Workers :
        /\ Answered(p, "login")
        /\ resp[p].status = 200
        /\ Len(users) = 2 /\ users[1].email # users[2].email
        /\ StoredFor(users[2], req[p].email, req[p].password)
        /\ sessions[resp[p].body.token] = 2

\* C9: with the database configured, a login that fails is answered 401
\* "Invalid credentials", the same response whether the email has no user
\* record or the password is wrong.
C9_LoginFailureUniform ==
    \A p \in Workers :
        (Answered(p, "login") /\ db /\ resp[p].status # 200)
           => resp[p] = HTTPException("login", 401, "Invalid credentials")

\* C9 witness: a login with a wrong password for a stored email has been
\* answered 401.
C9_Witness ==
    \E p \in Workers :
        /\ Answered(p, "login")
        /\ resp[p].status = 401
        /\ local[p].user # NoUser
        /\ ~StoredFor(local[p].user, req[p].email, req[p].password)

\* C10: every token returned by a signup or login resolves, in every later
\* state, to the user id it was returned for.
C10_TokensStayValid ==
    \A e \in issued :
        /\ require_auth(e[1]).status = 200
        /\ require_auth(e[1]).user_id = e[2]

\* C10 witness: three tokens are issued, two of them to the same user by
\* further logins, and a later login has failed.
C10_Witness ==
    \E p \in Workers :
        /\ Answered(p, "login")
        /\ resp[p].status = 401
        /\ Cardinality(issued) = 3
        /\ \E a, b \in issued : a # b /\ a[2] = b[2]

\* C11: when the database is not configured, signup, login, create_appointment
\* and list_my_appointments answer every request with 500 "Database not
\* configured" at their first step, whatever the payload and the token, never
\* with 400 or 401.
C11_Unavailable500 ==
    ~db => \A p \in Workers :
              pc[p] # "idle"
                 => /\ pc[p] = "done"
                    /\ resp[p] = HTTPException(req[p].op, 500, "Database not configured")

\* C11 witness: without a database, a create_appointment presenting no token
\* (401 with a database) has been answered 500.
C11_Witness ==
    \E p \in Workers :
        /\ Answered(p, "create_appointment")
        /\ ~db
        /\ req[p].token = None
        /\ resp[p].status = 500

\* the bookings answered 200 to the user the sessions dict binds to token
BookedBy(token) == {b \in booked : sessions[b.token] = sessions[token]}

\* the listed appointment a carries the id and the five submitted fields of b
SameBooking(a, b) ==
    /\ a.id = b.id
    /\ a.name = b.payload.name
    /\ a.phone = b.payload.phone
    /\ a.car_model = b.payload.car_model
    /\ a.datetime_iso = b.payload.datetime_iso
    /\ a.purpose = b.payload.purpose

\* C12: once create_appointment with token T and a payload has returned id i,
\* every list_my_appointments with T that queries afterwards returns an
\* appointment with id i and the five submitted fields; when the user of T has
\* a single booking, the list is exactly that appointment.
C12_BookingRoundTrip ==
    [][ \A p \in Workers :
          (pc[p] = "appointment_find" /\ pc'[p] = "done")
             => LET body == resp'[p].body
                    T == req[p].token
                IN  /\ resp'[p].status = 200
                    /\ \A b \in booked :
                          b.token = T => \E k \in 1..Len(body) : SameBooking(body[k], b)
                    /\ \A b \in BookedBy(T) :
                          BookedBy(T) = {b}
                             => Len(body) = 1 /\ SameBooking(body[1], b)
      ]_vars

\* C12 witness: two users have one booking each and one of them has been
\* answered the list of its single booking.
C12_Witness ==
    \E p \in Workers :
        /\ Answered(p, "list_my_appointments")
        /\ resp[p].status = 200
        /\ Cardinality(booked) = 2
        /\ \E b \in booked :
              /\ b.token = req[p].token
              /\ BookedBy(req[p].token) = {b}
              /\ resp[p].body # <<>> /\ SameBooking(resp[p].body[1], b)

\* worker p holds the outcome of a hash_password call
Hashed(p) == pc[p] = "done" /\ req[p].op = "hash_password"

\* two calls with the same password and the same salt_hex argument
SameCall(p, q) ==
    /\ Hashed(p) /\ Hashed(q)
    /\ req[p].password = req[q].password
    /\ req[p].salt_hex = req[q].salt_hex

\* a hex digit in lower case
Lower(c) == IF IsHexDigit(c) THEN HexLower[HexDigitValue(c) + 1] ELSE c

\* s without its whitespace and in lower case
RECURSIVE Canonical(_)
Canonical(s) ==
    IF s = <<>> THEN <<>>
    ELSE IF IsSpace(s[1]) THEN Canonical(Tail(s))
    ELSE <<Lower(s[1])>> \o Canonical(Tail(s))

\* C13 as stated: for every password and every supplied salt_hex that is
\* accepted, the empty string included, two calls return the same digest and
\* return salt_hex as the salt.
C13_Original ==
    \A p, q \in Workers :
        (SameCall(p, q) /\ req[p].salt_hex # None /\ resp[p].error = "")
           => /\ resp[q].error = ""
              /\ resp[p].digest = resp[q].digest
              /\ resp[p].salt = req[p].salt_hex

\* C13 amended: for every password and every non-empty salt_hex that is
\* accepted, two calls return the same digest and the same salt, which is
\* salt_hex in lower case and without whitespace (salt_hex itself when it is
\* written that way).  An empty salt_hex is treated as no salt given.
C13_DeterministicNonEmptySalt ==
    \A p, q \in Workers :
        (SameCall(p, q) /\ Truthy(req[p].salt_hex) /\ resp[p].error = "")
           => /\ resp[q].error = ""
              /\ resp[p].digest = resp[q].digest
              /\ resp[p].salt = Canonical(req[p].salt_hex)
              /\ resp[q].salt = resp[p].salt

\* C13 witness: two calls with the same password and the salt "0A" hold the
\* same digest, with the salt returned as "0a".
C13_Witness ==
    \E p, q \in Workers :
        /\ p # q /\ SameCall(p, q)
        /\ req[p].salt_hex = <<"0", "A">>
        /\ resp[p].error = ""
        /\ resp[p].digest = resp[q].digest
        /\ resp[p].salt = <<"0", "a">>

\* the places of s that hold no whitespace
NonSpace(s) == {i \in 1..Len(s) : ~IsSpace(s[i])}

\* s is made of pairs of adjacent hex digits, with whitespace at most around
\* the pairs
WellFormedHex(s) ==
    /\ \A i \in NonSpace(s) : IsHexDigit(s[i])
    /\ Cardinality(NonSpace(s)) % 2 = 0
    /\ \A i \in NonSpace(s) :
          Cardinality({j \in NonSpace(s) : j <= i}) % 2 = 1 => (i + 1) \in NonSpace(s)

\* s is made of hex digits only, an even number of them
PlainHex(s) == Len(s) % 2 = 0 /\ \A i \in 1..Len(s) : IsHexDigit(s[i])

\* C16 as stated: hash_password called with a non-empty salt_hex that is not
\* valid hexadecimal fails (with the malformed-input error) and returns no
\* digest.
C16_Original ==
    \A p \in Workers :
        (Hashed(p) /\ Truthy(req[p].salt_hex) /\ ~PlainHex(req[p].salt_hex))
           => resp[p].error # ""

\* C16 amended: hash_password called with a non-empty salt_hex raises
\* ValueError and returns no digest exactly when salt_hex holds a character
\* that is neither a hex digit nor whitespace, or a hex digit without an
\* adjacent partner; whitespace around the pairs is skipped, so that a string
\* of whitespace alone is accepted as the empty salt.
C16_MalformedSaltValueError ==
    \A p \in Workers :
        (Hashed(p) /\ Truthy(req[p].salt_hex))
           => IF WellFormedHex(req[p].salt_hex)
              THEN resp[p].error = ""
              ELSE resp[p].error = "ValueError"

\* C16 witness: a call with the salt "0g" has raised ValueError while another
\* call with a salt of one space holds a digest.
C16_Witness ==
    \E p, q \in Workers :
        /\ Hashed(p) /\ Hashed(q)
        /\ req[p].salt_hex = <<"0", "g">> /\ resp[p].error = "ValueError"
        /\ req[q].salt_hex = <<" ">> /\ resp[q].error = ""

\* C14: under every interleaving of the accesses of concurrent signup, login
\* and require_auth calls to the sessions dict, every token returned by a
\* completed signup or login is in the dict, bound to the user id of that call,
\* and a require_auth that passed the membership test returns the user id
\* bound to the presented token and no other (and finds the key still there).
C14_RegistryConsistent ==
    /\ \A e \in issued : e[1] \in DOMAIN sessions /\ sessions[e[1]] = e[2]
    /\ \A p \in Workers :
          /\ pc[p] = "require_auth_return" => req[p].token \in DOMAIN sessions
          /\ Answered(p, "require_auth")
                => /\ resp[p].status \in {200, 401}
                   /\ resp[p].status = 200
                         => /\ <<req[p].token, resp[p].body>> \in issued
                            /\ \A e \in issued : e[1] = req[p].token => e[2] = resp[p].body

\* C14 witness: a require_auth has passed its membership test and not yet read
\* the dict while a login of another user has written its token into it.
C14_Witness ==
    \E p, q \in Workers :
        /\ pc[p] = "require_auth_return"
        /\ Answered(q, "login") /\ resp[q].status = 200
        /\ sessions[req[p].token] # sessions[resp[q].body.token]

\* every document of the collection before the step is there after it, in its
\* place and with all its fields
Kept(before, after) ==
    /\ Len(after) >= Len(before)
    /\ \A i \in 1..Len(before) : after[i] = before[i]

\* the step is one of worker p handling a request of kind op
StepOf(p, op) == pc'[p] # pc[p] /\ (req[p].op = op \/ req'[p].op = op)

\* C15: no step of signup, login, create_appointment or list_my_appointments
\* changes or removes a stored user or a stored appointment, and the steps of
\* login and list_my_appointments leave both collections as they are.
C15_StoresAppendOnly ==
    [][ /\ Kept(users, users')
        /\ Kept(appointments, appointments')
        /\ \A p \in Workers :
              (StepOf(p, "login") \/ StepOf(p, "list_my_appointments"))
                 => users' = users /\ appointments' = appointments
      ]_vars

\* C15 witness: with two users and two appointments stored, a login has been
\* answered with a token.
C15_Witness ==
    \E p \in Workers :
        /\ Answered(p, "login")
        /\ resp[p].status = 200
        /\ Len(users) = 2
        /\ Len(appointments) = 2

\* the step leaves the users, the sessions and the appointments as they are
StoresUnchanged ==
    users' = users /\ sessions' = sessions /\ appointments' = appointments

\* C17: a request that fails leaves the three stores unchanged.  Every answer
\* other than 200 (signup 400, login 401, create_appointment and
\* list_my_appointments 401, any endpoint 500) is given at the first step of its
\* handler or at the password check of login; the step that gives it changes
\* no store, and neither does the first step of any handler.
C17_FailuresChangeNothing ==
    [][ \A p \in Workers :
          /\ (pc[p] = "idle" /\ pc'[p] # "idle") => StoresUnchanged
          /\ (pc[p] # "done" /\ pc'[p] = "done" /\ resp'[p].status # 200)
                => /\ pc[p] \in {"idle", "login_check"}
                   /\ StoresUnchanged
      ]_vars

\* C17 witness: with a user, a session and an appointment stored, a login
\* with a wrong password has been answered 401 after its password check.
C17_Witness ==
    \E p \in Workers :
        /\ Answered(p, "login")
        /\ resp[p].status = 401
        /\ local[p].user # NoUser
        /\ Len(users) = 1
        /\ Cardinality(DOMAIN sessions) = 1
        /\ Len(appointments) = 1

\* the ids of the stored users
UserIds == {users[i]._id : i \in 1..Len(users)}

\* C18: every user id the sessions dict holds as a value is the id of a stored
\* user, and so is the user_id of every stored appointment.
C18_SessionsReferToUsers ==
    /\ \A t \in DOMAIN sessions : sessions[t] \in UserIds
    /\ \A k \in 1..Len(appointments) : appointments[k].user_id \in UserIds

\* C18 witness: two users hold three sessions between them and an appointment
\* each.
C18_Witness ==
    /\ Len(users) = 2
    /\ Cardinality(DOMAIN sessions) = 3
    /\ {sessions[t] : t \in DOMAIN sessions} = {1, 2}
    /\ {appointments[k].user_id : k \in 1..Len(appointments)} = {1, 2}
====
